---- MODULE Spec2Model ----
(***************************************************************************)
(* Pay-per-query premium content gateway of the health-guardian plugin:    *)
(* the purchase_premium_medical_sources and publish_premium_medical_sources*)
(* tool handlers, the premiumQueryCache they share, X402PaymentService     *)
(* (sendPayment, verifyPayment, settle402) and MedicalSourcesService       *)
(* (fetchWithX402, fetchSources).                                          *)
(*                                                                         *)
(* Scheduling: one JavaScript event loop.  A handler runs without          *)
(* interruption from one await to the next, so every action below is the   *)
(* code between two awaits of one handler invocation ("call").             *)
(***************************************************************************)
EXTENDS Integers, Sequences, FiniteSets, TLC

\* ------------------------------------------------------------------ bounds
\* Number of handler invocations (purchase or publish) in one behaviour.
MaxCalls == 4
\* The clock advances in steps of TickMs up to MaxTicks steps.
MaxTicks == 1
TickMs == 300000
\* At most this many invocations are suspended at an await at the same time.
MaxInFlight == 2

None == "none"

\* ----------------------------------------------------------------- strings
\* A string is a sequence of one-character strings.  The token "sources:"
\* stands for that literal prefix (any letter case), "q" for a double quote.
ToLowerChar(ch) ==
    CASE ch = "A" -> "a"
      [] ch = "B" -> "b"
      [] OTHER -> ch

ToLower(s) == [i \in 1..Len(s) |-> ToLowerChar(s[i])]

IsSpace(ch) == ch = " "

RECURSIVE TrimLeft(_)
TrimLeft(s) ==
    IF s # <<>> /\ IsSpace(Head(s)) THEN TrimLeft(Tail(s)) ELSE s

RECURSIVE TrimRight(_)
TrimRight(s) ==
    IF s # <<>> /\ IsSpace(s[Len(s)]) THEN TrimRight(SubSeq(s, 1, Len(s) - 1)) ELSE s

Trim(s) == TrimRight(TrimLeft(s))

\* rawQuery.replace(/^sources:\s*/i, "")
StripSourcesPrefix(s) ==
    IF s # <<>> /\ Head(s) = "sources:" THEN TrimLeft(Tail(s)) ELSE s

\* .replace(/^\"|\"$/g, ""): a leading and a trailing double quote
StripQuotes(s) ==
    LET a == IF s # <<>> /\ Head(s) = "q" THEN Tail(s) ELSE s
    IN  IF a # <<>> /\ a[Len(a)] = "q" THEN SubSeq(a, 1, Len(a) - 1) ELSE a

\* query of the purchase handler: prefixes and quotes stripped, trimmed
ParseQuery(raw) == Trim(StripQuotes(StripSourcesPrefix(raw)))

\* normalizedQuery of the purchase handler
PurchaseKey(raw) == ToLower(ParseQuery(raw))

\* normalizedQuery of the publish handler: (query || "").toLowerCase().trim()
PublishKey(raw) == Trim(ToLower(raw))

\* The query strings callers send.
RawQueries ==
    { <<"a">>, <<" ", "A">>, <<>> }

\* Query strings on two different topics.
TwoQueries == { <<"a">>, <<"B">> }

Keys ==
    { PurchaseKey(r) : r \in RawQueries \cup TwoQueries }
    \cup { PublishKey(r) : r \in RawQueries }

\* ------------------------------------------------- X402PaymentService, pure
\* Addresses are atomic strings; AddrLower is String.prototype.toLowerCase on
\* them and Has0x is startsWith("0x").
AddrLower(a) ==
    CASE a = "0xAB" -> "0xab"
      [] a = "0xCD" -> "0xcd"
      [] OTHER -> a

Has0x(a) == a \in {"0xAB", "0xab", "0xCD", "0xcd"}

\* process.env.X402_PAYMENT_ADDRESS (here set, with upper-case hex digits)
paymentAddress == "0xAB"

\* process.env.X402_PAYMENT_AMOUNT || "0.02"
requiredAmount == "0.02"

\* the address of the account derived from DKG_PUBLISH_WALLET
walletAddress == "0xcd"

\* parseEther on the amount strings that occur, in micro-NEURO (10^12 wei);
\* -1 stands for the exception parseEther throws on a malformed amount.
ParseEther(amount) ==
    CASE amount = "0.02" -> 20000
      [] amount = "0.05" -> 50000
      [] OTHER -> -1

\* const gasLimit = 21_000n
gasLimit == 21000

NoOverrides == [payTo |-> None, amount |-> None]

\* normalizePayTo(input): the input if it starts with "0x", else undefined
normalizePayTo(input) ==
    IF input = None THEN None
    ELSE IF Has0x(input) THEN input ELSE None

\* ensureWallet() throws exactly when no private key is configured
EnsureWalletThrows(key) == key = ""

\* this.resolvedPayTo after ensureWallet()
resolvedPayTo == AddrLower(paymentAddress)

\* normalizePayTo(overrides?.payTo) || this.resolvedPayTo
ResolvePayTo(ovr) ==
    IF normalizePayTo(ovr.payTo) # None THEN normalizePayTo(ovr.payTo) ELSE resolvedPayTo

\* overrides?.amount || this.requiredAmount
ResolveAmount(ovr) ==
    IF ovr.amount # None THEN ovr.amount ELSE requiredAmount

\* getPaymentRequest(overrides): the request, or "throws" from ensureWallet
getPaymentRequest(key, ovr) ==
    IF EnsureWalletThrows(key)
    THEN [threw |-> TRUE, address |-> None, amount |-> None]
    ELSE [threw |-> FALSE, address |-> ResolvePayTo(ovr), amount |-> ResolveAmount(ovr)]

\* ------------------------------------------------------------------- chain
\* A transaction as the chain client reports it: status "pending" means that
\* getTransaction finds it and getTransactionReceipt does not (yet).
NoTx == [found |-> FALSE, to |-> None, value |-> 0, from |-> None, status |-> None]

MkTx(to, value, from, status) ==
    [found |-> TRUE, to |-> to, value |-> value, from |-> from, status |-> status]

\* Transactions that exist before the first call (sent by users themselves).
UserTxs ==
    [h \in {"Tgood", "Tlow", "Tcase", "Twrong", "Trev"} |->
        CASE h = "Tgood"  -> MkTx("0xab", 20000, "0xuser", "success")
          [] h = "Tlow"   -> MkTx("0xab", 10000, "0xuser", "success")
          [] h = "Tcase"  -> MkTx("0xAB", 50000, "0xuser", "success")
          [] h = "Twrong" -> MkTx("0xcd", 20000, "0xuser", "success")
          [] h = "Trev"   -> MkTx("0xab", 20000, "0xuser", "reverted")]

\* Hashes for the transactions sendTransaction creates.
SentIds == <<"S1", "S2", "S3", "S4", "S5", "S6", "S7", "S8", "S9", "S10">>

\* getTransaction / getTransactionReceipt of hash h.  The transactions of
\* users are fixed; a transaction sendTransaction created is looked up only by
\* the invocation that sent it (ownHash, own): no caller passes such a hash in.
Lookup(ownHash, own, h) ==
    IF h \in DOMAIN UserTxs THEN UserTxs[h]
    ELSE IF h = ownHash THEN own
    ELSE NoTx

\* verifyPayment(txHash, overrides): the PaymentVerification it returns.
\* rpc = "throw" is a lookup that rejects; a transaction the chain does not
\* hold, or holds without a receipt, ends in the same result.  hasDetails
\* tells whether the amount and from fields are present.
verifyPayment(key, tx, txHash, ovr, rpc) ==
    LET 
        notFound == [verified |-> FALSE, txHash |-> txHash, hasDetails |-> FALSE,
                     amount |-> 0, from |-> None]
        payTo == ResolvePayTo(ovr)
        expectedAmount == ResolveAmount(ovr)
        isCorrectRecipient == AddrLower(tx.to) = AddrLower(payTo)
        isCorrectAmount == tx.value >= ParseEther(expectedAmount)
        isSuccessful == tx.status = "success"
    IN  IF EnsureWalletThrows(key) \/ rpc = "throw" THEN notFound
        ELSE IF ~tx.found \/ tx.status = "pending" THEN notFound
        ELSE IF ParseEther(expectedAmount) < 0 THEN notFound
        ELSE [verified |-> isCorrectRecipient /\ isCorrectAmount /\ isSuccessful,
              txHash |-> txHash, hasDetails |-> TRUE, amount |-> tx.value,
              from |-> tx.from]

\* --------------------------------------------- MedicalSourcesService, pure
\* An upstream (Europe PMC) record: pmcid, pmid, doi and the open-access
\* full-text url, each a string or None.
Item(pmcid, pmid, doi, oa) == [pmcid |-> pmcid, pmid |-> pmid, doi |-> doi, oa |-> oa]

StrLower(x) ==
    CASE x = "10.1/X" -> "10.1/x"
      [] x = "PMC1" -> "pmc1"
      [] OTHER -> x

\* `epmc_${Math.random()...}` of the item at position i: fresh for each item
RandomIds == <<"epmc_r1", "epmc_r2", "epmc_r3", "epmc_r4">>

\* item.pmcid || item.pmid || item.doi || `epmc_...`
ItemId(item, i) ==
    IF item.pmcid # None THEN item.pmcid
    ELSE IF item.pmid # None THEN item.pmid
    ELSE IF item.doi # None THEN item.doi
    ELSE RandomIds[i]

\* pickUrl(item): the open-access url, else one built from pmcid, else from doi
pickUrl(item) ==
    IF item.oa # None THEN [from |-> "oa", v |-> item.oa]
    ELSE IF item.pmcid # None THEN [from |-> "pmcid", v |-> item.pmcid]
    ELSE IF item.doi # None THEN [from |-> "doi", v |-> item.doi]
    ELSE [from |-> None, v |-> None]

\* Faulty variant: the key as it is written upstream, letter case included.
DedupKeyCaseSensitive(item, i) ==
    IF item.doi # None THEN item.doi
    ELSE IF item.pmcid # None THEN item.pmcid
    ELSE IF item.oa # None THEN item.oa
    ELSE ItemId(item, i)

\* (item.doi || item.pmcid || url || id || "").toLowerCase(); the url is
\* reached only when doi and pmcid are absent, so it is the open-access url
DedupKey(item, i) ==
    StrLower(IF item.doi # None THEN item.doi
             ELSE IF item.pmcid # None THEN item.pmcid
             ELSE IF item.oa # None THEN item.oa
             ELSE ItemId(item, i))

ToSource(item, i) ==
    [id |-> ItemId(item, i), pmcid |-> item.pmcid, doi |-> item.doi, url |-> pickUrl(item)]

\* the for loop of fetchSources from position i on
RECURSIVE DedupLoop(_, _, _, _, _)
DedupLoop(results, i, sources, seen, limit) ==
    IF i > Len(results) THEN sources
    ELSE LET k == DedupKey(results[i], i)
         IN  IF k \in seen THEN DedupLoop(results, i + 1, sources, seen, limit)
             ELSE LET out == Append(sources, ToSource(results[i], i))
                  IN  IF Len(out) >= limit THEN out
                      ELSE DedupLoop(results, i + 1, out, seen \cup {k}, limit)

Dedup(results, limit) == DedupLoop(results, 1, <<>>, {}, limit)

\* fetchPremiumSources asks fetchSources for 2 items
premiumLimit == 2

\* The result lists the content source answers with.
Upstreams ==
    { <<>>,
      << Item(None, "P1", "10.1/X", None), Item(None, "P2", "10.1/x", None),
         Item("PMC1", None, None, None) >> }

\* What one HTTP request to the content source ends in.
FetchOutcomes ==
    [kind : {"ok"}, results : Upstreams, hdr : {NoOverrides}]
    \cup [kind : {"http500", "throw"}, results : {<<>>}, hdr : {NoOverrides}]
    \cup [kind : {"402"}, results : {<<>>},
          hdr : { [payTo |-> "0xCD", amount |-> None] }]

\* ------------------------------------------------------------------- state
VARIABLES
    privateKey,   \* process.env.DKG_PUBLISH_WALLET || "" (fixed at start-up)
    now,          \* Date.now()
    cache,        \* premiumQueryCache: key -> entry (NoEntry: no mapping)
    calls,        \* the handler invocations that are running, by slot
    creates,      \* number of ctx.dkg.asset.create invocations so far
    started,      \* number of handler invocations so far
    last,         \* history: key -> the last event on that key
    settled,      \* history: key -> times of the last two sendPayment calls
    probe         \* the last direct call of a service method, with its result

vars == <<privateKey, now, cache, calls, creates, started, last, settled, probe>>

PREMIUM_QUERY_CACHE_MS == 5 * 60 * 1000

Slots == 1..MaxInFlight

\* A tool response: content plus the isError flag.  kind "exception" is no
\* response at all: the handler's promise rejected.  paid is history: whether
\* the line-224 verification of txHash returned verified = true.
Resp(kind, isError, txHash, sources, err, ual) ==
    [kind |-> kind, isError |-> isError, txHash |-> txHash, sources |-> sources,
     err |-> err, ual |-> ual, paid |-> FALSE]

NoResponse == Resp(None, FALSE, None, <<>>, None, None)

\* the response object built at lines 250-289 of the purchase handler
ContentResponse(txHash, sources, paid) ==
    [Resp("content", FALSE, txHash, sources, None, None) EXCEPT !.paid = paid]

\* PremiumCacheEntry.  fetchedAt is history: the time at which the purchase
\* handler committed the payload (response, sources, txHash); no action reads it.
NoEntry ==
    [status |-> "absent", timestamp |-> 0, response |-> NoResponse, sources |-> <<>>,
     txHash |-> None, publishedUal |-> None, fetchedAt |-> 0]

PendingEntry(t) == [NoEntry EXCEPT !.status = "pending", !.timestamp = t]

FailedEntry(t) == [NoEntry EXCEPT !.status = "failed", !.timestamp = t]

SuccessEntry(t, response, sources, txHash) ==
    [status |-> "success", timestamp |-> t, response |-> response, sources |-> sources,
     txHash |-> txHash, publishedUal |-> None, fetchedAt |-> t]

\* cached && now - cached.timestamp < PREMIUM_QUERY_CACHE_MS
IsFresh(entry, t) ==
    entry.status # "absent" /\ t - entry.timestamp < PREMIUM_QUERY_CACHE_MS

NoPreflight == [balance |-> 0, gasPrice |-> 0, seen |-> FALSE]

\* One handler invocation.  The fields below the line are history: they
\* record what the invocation did and are read by no action.
IdleCall ==
    [kind |-> None, key |-> <<>>, pc |-> "idle",
     tx |-> None,              \* paymentTxHash
     argAuto |-> None,         \* args.autoPay, where line 192 went by it and paid
     ctx |-> None,             \* who called sendPayment: "auto" or "402"
     ovr |-> NoOverrides,      \* the overrides settle402 passes on
     ptx |-> None,             \* txHash inside sendPayment
     sent |-> NoTx,            \* the transaction of that hash, as the chain has it
     snap |-> NoEntry,         \* cached, as the publish handler read it
     createNo |-> 0,           \* which asset.create invocation is this call's
     res |-> NoResponse,       \* what the handler returned
     \* ---------------------------------------------------------------
     argTx |-> None,           \* args.paymentTxHash
     autoPay |-> FALSE,        \* line 163, where it is read (no paymentTxHash)
     branch |-> None,          \* "pending", "hit" or "miss"
     settles |-> 0,            \* its sendPayment invocations
     submitted |-> 0,          \* its sendTransaction invocations
     pre |-> NoPreflight,      \* what the last preflight lookups answered
     checked |-> FALSE,        \* line 224 has answered
     paid |-> FALSE,           \* the verified field of that answer
     fetches |-> 0,            \* HTTP requests it sent to the content source
     upstream |-> None,        \* how the last of them ended
     commit |-> None]          \* what it last wrote: "success", "failed", "released"

InFlight == { c \in Slots : calls[c].pc \notin {"idle", "done"} }

\* A finished invocation hands its response to its caller before anything
\* else happens (Return): no other step is taken while one is waiting.
Quiet == \A c \in Slots : calls[c].pc # "done"

\* a new invocation takes the lowest free slot
IsNext(c) ==
    /\ Quiet
    /\ started < MaxCalls
    /\ calls[c].pc = "idle"
    /\ \A d \in Slots : d < c => calls[d].pc # "idle"

\* An event on a key, for the history: a handler's arrival (with the entry it
\* found and how it means to pay, when it claims the key) or its commit.
Ev(kind, found, mode, txHash, ual) ==
    [kind |-> kind, t |-> now, found |-> found, mode |-> mode, txHash |-> txHash,
     ual |-> ual]

NoEvent == [kind |-> None, t |-> 0, found |-> None, mode |-> None, txHash |-> None,
            ual |-> None]

Log(key, ev) == last' = [last EXCEPT ![key] = ev]

\* the last two of the times, with t added
PushTime(times, t) ==
    IF Len(times) < 2 THEN Append(times, t) ELSE <<times[2], t>>

\* autoPay = args.autoPay !== undefined ? Boolean(args.autoPay) : false
\* The argument is undefined (None), a boolean ("true", "false") or a string
\* ("str:false", "str:").
CoerceAutoPay(arg) ==
    CASE arg = None -> FALSE
      [] arg = "true" -> TRUE
      [] arg = "false" -> FALSE
      [] arg = "str:" -> FALSE
      [] OTHER -> TRUE

AutoArgs == {None, "true", "false", "str:false"}

ArgTxs == {None, "Tgood", "Tlow"}

\* No service method has been called directly.
NoProbe == [op |-> None]

Init ==
    /\ probe = NoProbe
    /\ privateKey \in {"", "0xkey"}
    /\ now = 0
    /\ cache = [k \in Keys |-> NoEntry]
    /\ calls = [c \in Slots |-> IdleCall]
    /\ creates = 0
    /\ started = 0
    /\ last = [k \in Keys |-> NoEvent]
    /\ settled = [k \in Keys |-> <<>>]

\* Time passes between any two steps.
Tick ==
    /\ Quiet
    /\ now < MaxTicks * TickMs
    /\ now' = now + TickMs
    /\ UNCHANGED <<probe, privateKey, cache, calls, creates, started, last, settled>>

\* The caller has the response; the invocation is over.  The invocations still
\* under way keep the lower slots.
Return(c) ==
    /\ calls[c].pc = "done"
    /\ calls' = [d \in Slots |->
            IF d < c THEN calls[d]
            ELSE IF d < MaxInFlight THEN calls[d + 1] ELSE IdleCall]
    /\ UNCHANGED <<probe, privateKey, now, cache, creates, started, last, settled>>

\* ------------------------------------------- purchase_premium_medical_sources
\* The handler returns res; its locals are gone.
Finish(call, res) ==
    [call EXCEPT !.pc = "done", !.res = res, !.argAuto = None, !.ctx = None,
                 !.ovr = NoOverrides,
                 !.ptx = None, !.sent = NoTx, !.snap = NoEntry]

\* The catch block (lines 300-307).  normalizedQuery is a const of the try
\* block and is not in scope in the catch block: evaluating the argument of
\* premiumQueryCache.set throws a ReferenceError before anything is written,
\* and the handler's promise rejects.  The cache stays as the try block left it.
CatchBlockCache(cacheAtThrow, key, t) == cacheAtThrow

CatchBlockResponse == Resp("exception", FALSE, None, <<>>, "ReferenceError", None)

\* Faulty variant: a handler that does not look for a pending entry.
ClaimBranchNoDebounce(cached, t) ==
    IF IsFresh(cached, t) /\ cached.status = "success" THEN "hit" ELSE "miss"

\* Faulty variant: a handler that does not reuse a success entry.
ClaimBranchNoReuse(cached, t) ==
    IF IsFresh(cached, t) /\ cached.status = "pending" THEN "pending" ELSE "miss"

\* Faulty variant: a handler that turns callers away from a failed entry,
\* however old it is.
ClaimBranchFailedBlocks(cached, t) ==
    IF cached.status = "failed" THEN "pending"
    ELSE IF IsFresh(cached, t) /\ cached.status = "pending" THEN "pending"
    ELSE IF IsFresh(cached, t) /\ cached.status = "success" THEN "hit"
    ELSE "miss"

\* lines 132-160: what the handler does with the entry it finds
ClaimBranch(cached, t) ==
    IF IsFresh(cached, t) /\ cached.status = "pending" THEN "pending"
    ELSE IF IsFresh(cached, t) /\ cached.status = "success" THEN "hit"
    ELSE "miss"

\* history: the entry a handler found, "stale-..." when its TTL has elapsed
Found(cached, t) ==
    IF cached.status = "absent" \/ IsFresh(cached, t) THEN cached.status
    ELSE CASE cached.status = "pending" -> "stale-pending"
           [] cached.status = "success" -> "stale-success"
           [] OTHER -> "stale-failed"

\* lines 96-224, up to the first await
PurchaseStart(c, raw, argTx, argAuto) ==
    LET query == ParseQuery(raw)
        key == ToLower(query)
        cached == cache[key]
        autoPay == CoerceAutoPay(argAuto)
        branch == ClaimBranch(cached, now)
        found == Found(cached, now)
        base == [IdleCall EXCEPT !.kind = "purchase", !.key = key, !.argTx = argTx,
                                 !.argAuto = IF argTx = None /\ autoPay
                                             THEN argAuto ELSE None,
                                 !.autoPay = (argTx = None /\ autoPay),
                                 !.tx = argTx, !.branch = branch]
        claimed == [cache EXCEPT ![key] = PendingEntry(now)]
        released == [cache EXCEPT ![key] = NoEntry]
        req == getPaymentRequest(privateKey, NoOverrides)
    IN  /\ IsNext(c)
        /\ started' = started + 1
        /\ UNCHANGED <<probe, privateKey, now, creates>>
        /\ IF branch = "pending"
           THEN /\ cache' = cache
                /\ calls' = [calls EXCEPT ![c] =
                        Finish(base, Resp("wait", FALSE, None, <<>>, None, None))]
                /\ Log(key, Ev("wait", None, None, None, None))
                /\ settled' = settled
           ELSE IF branch = "hit"
           THEN /\ cache' = cache
                /\ calls' = [calls EXCEPT ![c] = Finish(base, cached.response)]
                /\ Log(key, Ev("hit", None, None, cached.response.txHash, None))
                /\ settled' = settled
           ELSE IF query = <<>>
           THEN /\ cache' = released
                /\ calls' = [calls EXCEPT ![c] =
                        Finish([base EXCEPT !.commit = "released"],
                               Resp("noquery", TRUE, None, <<>>, None, None))]
                /\ last' = last
                /\ settled' = settled
           ELSE IF argTx = None /\ ~autoPay
           THEN /\ settled' = settled
                /\ IF req.threw
                   THEN /\ cache' = CatchBlockCache(claimed, key, now)
                        /\ calls' = [calls EXCEPT ![c] = Finish(base, CatchBlockResponse)]
                        /\ Log(key, Ev("throw", None, None, None, None))
                   ELSE /\ cache' = released
                        /\ calls' = [calls EXCEPT ![c] =
                                Finish([base EXCEPT !.commit = "released"],
                                       Resp("instructions", TRUE, None, <<>>, None, None))]
                        /\ Log(key, Ev("instructions", None, None, None, None))
           ELSE IF argTx = None /\ autoPay
           THEN /\ cache' = claimed
                /\ calls' = [calls EXCEPT ![c] =
                        [base EXCEPT !.pc = "pay", !.ctx = "auto", !.settles = 1]]
                /\ Log(key, Ev("claim", found, "auto", None, None))
                /\ settled' = [settled EXCEPT ![key] = PushTime(@, now)]
           ELSE /\ cache' = claimed
                /\ calls' = [calls EXCEPT ![c] = [base EXCEPT !.pc = "verify"]]
                /\ Log(key, Ev("claim", found, "tx", argTx, None))
                /\ settled' = settled

\* lines 197-208, 212-221 and 225-236: commit failed and return the error
CommitFailed(c, call, kind, err) ==
    /\ cache' = [cache EXCEPT ![call.key] = FailedEntry(now)]
    /\ calls' = [calls EXCEPT ![c] =
            Finish([call EXCEPT !.commit = "failed"],
                   Resp(kind, TRUE, call.tx, <<>>, err, None))]
    /\ Log(call.key, Ev("failed", None, None, call.tx, None))
    /\ settled' = settled

\* lines 241-299: build the response, commit success and return it
CommitSuccess(c, call, sources) ==
    LET response == ContentResponse(call.tx, sources, call.paid)
    IN  /\ cache' = [cache EXCEPT ![call.key] =
                SuccessEntry(now, response, sources, call.tx)]
        /\ calls' = [calls EXCEPT ![c] =
                Finish([call EXCEPT !.commit = "success"], response)]
        /\ Log(call.key, Ev("success", None, None, call.tx, None))
        /\ settled' = settled

\* sendPayment returned {error}.  After the auto-pay call (lines 197-208) the
\* key is committed failed.  Inside settle402 the error goes back to
\* fetchWithX402, which throws; fetchSources catches and returns [], and the
\* purchase handler goes on with zero sources.
SendPaymentError(c, call, err) ==
    IF call.ctx = "auto"
    THEN CommitFailed(c, call, "payfail", err)
    ELSE CommitSuccess(c, call, <<>>)

\* What the preflight lookups (getBalance, getGasPrice) answer, in micro-NEURO.
Preflights ==
    [kind : {"ok"}, balance : {40999, 41000}, gasPrice : {1}]
    \cup [kind : {"throw"}, balance : {0}, gasPrice : {0}]

\* Faulty variant: the balance test without the fee.
InsufficientFundsNoFee(balance, value, gasPrice) == balance < value

\* Faulty variant: a balance equal to the total cost is refused as well.
InsufficientFundsAtTotal(balance, value, gasPrice) ==
    balance <= value + gasPrice * 21000

\* balance < totalCost
InsufficientFunds(balance, value, gasPrice) == balance < value + gasPrice * gasLimit

\* sendPayment, lines 126-162: from the call to the sendTransaction call
PayPreflight(c) ==
    LET call == calls[c]
        value == ParseEther(ResolveAmount(call.ovr))
    IN  /\ Quiet
        /\ call.pc = "pay"
        /\ UNCHANGED <<probe, privateKey, now, creates, started>>
        /\ IF EnsureWalletThrows(privateKey)
           THEN SendPaymentError(c, call, "config")
           ELSE IF value < 0
           THEN SendPaymentError(c, call, "parse")
           ELSE \E pre \in Preflights :
                  LET seen == [call EXCEPT !.pre = [balance |-> pre.balance,
                                                    gasPrice |-> pre.gasPrice,
                                                    seen |-> TRUE]]
                  IN  IF pre.kind = "throw"
                      THEN SendPaymentError(c, call, "rpc")
                      ELSE IF InsufficientFunds(pre.balance, value, pre.gasPrice)
                      THEN SendPaymentError(c, seen, "insufficient")
                      ELSE /\ cache' = cache
                           /\ calls' = [calls EXCEPT ![c] =
                                   [seen EXCEPT !.pc = "submit",
                                                !.submitted = call.submitted + 1]]
                           /\ UNCHANGED <<last, settled>>

\* The hashes the state still mentions.
LiveTx ==
    { cache[k].txHash : k \in Keys }
    \cup { calls[c].tx : c \in Slots } \cup { calls[c].ptx : c \in Slots }
    \cup { last[k].txHash : k \in Keys }

\* sendTransaction's hash is one no earlier transaction has; of the unused
\* names the first stands for it.
FreshTx ==
    SentIds[CHOOSE i \in 1..Len(SentIds) :
                /\ SentIds[i] \notin LiveTx
                /\ \A j \in 1..(i - 1) : SentIds[j] \in LiveTx]

\* The transaction sendPayment hands to sendTransaction: to the resolved
\* recipient, for the resolved amount, from the configured wallet.
PaymentTx(ovr) ==
    MkTx(ResolvePayTo(ovr), ParseEther(ResolveAmount(ovr)), walletAddress, "pending")

\* sendPayment, lines 157-163: sendTransaction returns the hash or rejects
PaySubmit(c) ==
    LET call == [calls[c] EXCEPT !.pre = NoPreflight]
        tx == PaymentTx(call.ovr)
    IN  /\ Quiet
        /\ call.pc = "submit"
        /\ UNCHANGED <<probe, privateKey, now, creates, started>>
        /\ \E out \in {"hash", "throw"} :
              IF out = "hash"
              THEN /\ cache' = cache
                   /\ calls' = [calls EXCEPT ![c] =
                           [call EXCEPT !.pc = "receipt", !.ptx = FreshTx, !.sent = tx]]
                   /\ UNCHANGED <<last, settled>>
              ELSE SendPaymentError(c, call, "rpc")

\* sendPayment returned {txHash}: the auto-pay caller verifies it (lines
\* 194-196, 224), settle402 verifies it with the requirement's overrides.
\* (Line 211 is dead: paymentTxHash is set on both ways to it.)
SendPaymentOk(c, call) ==
    /\ cache' = cache
    /\ calls' = [calls EXCEPT ![c] =
            IF call.ctx = "auto"
            THEN [call EXCEPT !.pc = "verify", !.tx = call.ptx]
            ELSE [call EXCEPT !.pc = "verify402"]]
    /\ UNCHANGED <<last, settled>>

\* Faulty variant: a sendPayment that hands out the hash whatever the receipt
\* says.
ReceiptIgnored(status) == TRUE

\* line 165: receipt?.status === "success"
ReceiptSuccess(status) == status = "success"

\* sendPayment, lines 164-173: the receipt arrives (or the wait rejects)
PayReceipt(c) ==
    LET call == calls[c]
    IN  /\ Quiet
        /\ call.pc = "receipt"
        /\ UNCHANGED <<probe, privateKey, now, creates, started>>
        /\ \E st \in {"success", "reverted", "throw"} :
              IF st = "throw"
              THEN SendPaymentError(c, call, "rpc")
              ELSE IF ReceiptSuccess(st)
              THEN SendPaymentOk(c, [call EXCEPT !.sent.status = st])
              ELSE SendPaymentError(c, [call EXCEPT !.sent.status = st], "txfailed")

\* Faulty variants: a handler that ignores the answer, and one that reads it
\* the wrong way round.
VerificationIgnored(verification) == TRUE

VerificationInverted(verification) == ~verification.verified

\* Faulty variant: a handler that goes on to the content fetch when the
\* transaction could not be looked up.
VerificationUnlessFound(verification) ==
    verification.verified \/ ~verification.hasDetails

\* line 225: if (!verification.verified)
VerificationPassed(verification) == verification.verified

\* lines 224-240: verifyPayment(paymentTxHash) answers; on success the content
\* fetch is started
Verify(c) ==
    LET call == calls[c]
    IN  /\ Quiet
        /\ call.pc = "verify"
        /\ UNCHANGED <<probe, privateKey, now, creates, started>>
        /\ \E rpc \in {"ok", "throw"} :
              LET verification ==
                      verifyPayment(privateKey, Lookup(call.ptx, call.sent, call.tx),
                                    call.tx, NoOverrides, rpc)
                  answered == [call EXCEPT !.checked = TRUE,
                                           !.paid = verification.verified]
              IN  IF VerificationPassed(verification)
                  THEN /\ cache' = cache
                       /\ calls' = [calls EXCEPT ![c] =
                               [answered EXCEPT !.pc = "fetch1",
                                                !.fetches = call.fetches + 1]]
                       /\ UNCHANGED <<last, settled>>
                  ELSE CommitFailed(c, answered, "verifyfail", None)

\* fetchSources, lines 236-295, once the response is in hand
SourcesOf(outcome) ==
    IF outcome.kind = "ok" THEN Dedup(outcome.results, premiumLimit) ELSE <<>>

\* Faulty variant: any response that is not ok counts as a payment challenge.
PaymentRequiredUnlessOk(response) == response.kind # "ok"

\* line 199: initial.status !== 402 is false (this.paymentService is set,
\* part_004 line 81)
PaymentRequired(response) == response.kind = "402"

\* Faulty variant: a fetchSources that lets a failed request escape.
FetchSourcesRethrows(outcome) == outcome.kind \in {"http500", "throw"}

\* fetchSources, lines 236-241 and 292-295: a response that is not ok and a
\* rejected request both end in return [], so nothing is thrown to the
\* purchase handler
FetchSourcesThrows(outcome) == FALSE

\* fetchPremiumSources has returned (or thrown) for the response o: the
\* handler commits what it got, or ends in its catch block
FetchReturns(c, call, o) ==
    LET seen == [call EXCEPT !.upstream = o.kind]
    IN  IF FetchSourcesThrows(o)
        THEN /\ cache' = CatchBlockCache(cache, call.key, now)
             /\ calls' = [calls EXCEPT ![c] = Finish(seen, CatchBlockResponse)]
             /\ Log(call.key, Ev("throw", None, None, None, None))
             /\ settled' = settled
        ELSE CommitSuccess(c, seen, SourcesOf(o))

\* fetchWithX402, lines 198-205: the first response arrives; a 402 starts
\* settle402 (and with it sendPayment), anything else goes back to fetchSources
Fetch1(c) ==
    LET call == calls[c]
    IN  /\ Quiet
        /\ call.pc = "fetch1"
        /\ UNCHANGED <<probe, privateKey, now, creates, started>>
        /\ \E o \in FetchOutcomes :
              IF PaymentRequired(o)
              THEN /\ cache' = cache
                   /\ calls' = [calls EXCEPT ![c] =
                           [call EXCEPT !.pc = "pay", !.ctx = "402", !.upstream = o.kind,
                                        !.ovr = [payTo |-> normalizePayTo(o.hdr.payTo),
                                                 amount |-> o.hdr.amount],
                                        !.settles = call.settles + 1]]
                   /\ settled' = [settled EXCEPT ![call.key] = PushTime(@, now)]
                   /\ last' = last
              ELSE FetchReturns(c, call, o)

\* settle402, lines 268-272, and fetchWithX402, lines 206-214: the
\* verification of the settlement answers; verified, the request is re-issued
\* with the payment-proof header
Verify402(c) ==
    LET call == calls[c]
    IN  /\ Quiet
        /\ call.pc = "verify402"
        /\ UNCHANGED <<probe, privateKey, now, creates, started>>
        /\ \E rpc \in {"ok", "throw"} :
              IF verifyPayment(privateKey, Lookup(call.ptx, call.sent, call.ptx),
                               call.ptx, call.ovr, rpc).verified
              THEN /\ cache' = cache
                   /\ calls' = [calls EXCEPT ![c] =
                           [call EXCEPT !.pc = "fetch2",
                                        !.fetches = call.fetches + 1]]
                   /\ UNCHANGED <<last, settled>>
              ELSE CommitSuccess(c, call, <<>>)

\* the paid retry answers (line 214); fetchSources treats any response that
\* is not ok, a second 402 included, as zero sources
Fetch2(c) ==
    LET call == calls[c]
    IN  /\ Quiet
        /\ call.pc = "fetch2"
        /\ UNCHANGED <<probe, privateKey, now, creates, started>>
        /\ \E o \in FetchOutcomes : FetchReturns(c, call, o)

\* -------------------------------------------- publish_premium_medical_sources
\* UALs asset.create hands out, one per asset it creates
Uals == <<"ual1", "ual2", "ual3", "ual4", "ual5", "ual6">>

\* Faulty variant: a handler that asks for a payload but not for the status.
PublishableAnyStatus(cached) == Len(cached.sources) > 0

\* line 335: !cached || cached.status !== "success" || !cached.sources?.length
Publishable(cached) ==
    cached.status = "success" /\ Len(cached.sources) > 0

\* Faulty variant: a handler that does not look at publishedUal.
NeverPublished(cached) == FALSE

\* line 348: if (cached.publishedUal)
AlreadyPublished(cached) == cached.publishedUal # None

\* lines 320-363, up to the await of publishAggregatedSourcesToDkg, which
\* calls ctx.dkg.asset.create before it suspends
PublishStart(c, raw) ==
    LET key == PublishKey(raw)
        cached == cache[key]
        found == Found(cached, now)
        base == [IdleCall EXCEPT !.kind = "publish", !.key = key]
    IN  /\ IsNext(c)
        /\ started' = started + 1
        /\ UNCHANGED <<probe, privateKey, now, cache, settled>>
        /\ IF key = <<>>
           THEN /\ creates' = creates
                /\ calls' = [calls EXCEPT ![c] =
                        Finish(base, Resp("pub_noquery", TRUE, None, <<>>, None, None))]
                /\ last' = last
           ELSE IF ~Publishable(cached)
           THEN /\ creates' = creates
                /\ calls' = [calls EXCEPT ![c] =
                        Finish(base, Resp("pub_norecent", TRUE, None, <<>>, None, None))]
                /\ Log(key, Ev("pub_norecent", None, None, None, None))
           ELSE IF AlreadyPublished(cached)
           THEN /\ creates' = creates
                /\ calls' = [calls EXCEPT ![c] =
                        Finish(base, Resp("pub_already", FALSE, None, <<>>, None,
                                          cached.publishedUal))]
                /\ Log(key, Ev("pub_already", None, None, None, cached.publishedUal))
           ELSE /\ creates < Len(Uals)
                /\ creates' = creates + 1
                /\ calls' = [calls EXCEPT ![c] =
                        [base EXCEPT !.pc = "creating", !.snap = cached,
                                     !.createNo = creates + 1]]
                /\ Log(key, Ev("pub_create", None, None, None, None))

\* lines 365-396: asset.create answers with a UAL, without one, or rejects;
\* the handler writes back the entry it read at line 334
PublishFinish(c) ==
    LET call == calls[c]
    IN  /\ Quiet
        /\ call.pc = "creating"
        /\ UNCHANGED <<probe, privateKey, now, creates, started, settled>>
        /\ \E out \in {"ual", "noual", "throw"} :
              IF out = "ual"
              THEN /\ cache' = [cache EXCEPT ![call.key] =
                           [call.snap EXCEPT !.status = "success", !.timestamp = now,
                                             !.publishedUal = Uals[call.createNo]]]
                   /\ calls' = [calls EXCEPT ![c] =
                           Finish([call EXCEPT !.commit = "success"],
                                  Resp("pub_ok", FALSE, None, <<>>, None,
                                       Uals[call.createNo]))]
                   /\ Log(call.key, Ev("pub_ok", None, None, None, Uals[call.createNo]))
              ELSE /\ cache' = [cache EXCEPT ![call.key] =
                           [call.snap EXCEPT !.status = "failed", !.timestamp = now]]
                   /\ calls' = [calls EXCEPT ![c] =
                           Finish([call EXCEPT !.commit = "failed"],
                                  Resp("pub_failed", TRUE, None, <<>>, out, None))]
                   /\ Log(call.key, Ev("pub_failed", None, None, None, None))

\* ----------------------------------------------------------- specification
Next ==
    \/ Tick
    \/ \E c \in Slots, raw \in RawQueries, argTx \in ArgTxs, argAuto \in AutoArgs :
          PurchaseStart(c, raw, argTx, argAuto)
    \/ \E c \in Slots : PayPreflight(c)
    \/ \E c \in Slots : PaySubmit(c)
    \/ \E c \in Slots : PayReceipt(c)
    \/ \E c \in Slots : Verify(c)
    \/ \E c \in Slots : Fetch1(c)
    \/ \E c \in Slots : Verify402(c)
    \/ \E c \in Slots : Fetch2(c)
    \/ \E c \in Slots, raw \in RawQueries : PublishStart(c, raw)
    \/ \E c \in Slots : PublishFinish(c)
    \/ \E c \in Slots : Return(c)

Spec == Init /\ [][Next]_vars

TypeNow == now \in { i * TickMs : i \in 0..MaxTicks }

\* ------------------------------------------------------------------ claims
TTL == PREMIUM_QUERY_CACHE_MS

\* a new invocation of the given tool takes slot c in this step
Arrives(c, kind) ==
    calls[c].pc = "idle" /\ calls'[c].pc # "idle" /\ calls'[c].kind = kind

Purchases(k) ==
    { c \in InFlight : calls[c].kind = "purchase" /\ calls[c].key = k }

\* C1: for any key, sendPayment is invoked at most once per TTL window: two
\* settlement invocations on one key (from the auto-pay step or from the
\* content fetch's 402 path) are at least PREMIUM_QUERY_CACHE_MS apart.
C1_OneSettlementPerWindow ==
    \A k \in Keys :
        Len(settled[k]) = 2 => settled[k][2] - settled[k][1] >= TTL

\* C2: for any key, at most one purchase invocation is between its claim of
\* the key and its commit or release.
C2_SingleClaimant ==
    \A k \in Keys : Cardinality(Purchases(k)) <= 1

\* C3: premium content is never returned, and no success entry is written,
\* without a payment verification that answered verified = true for the
\* transaction hash the response and the entry carry.
C3_ContentOnlyAfterVerification ==
    /\ \A k \in Keys :
          cache[k].status = "success" =>
              /\ cache[k].response.kind = "content"
              /\ cache[k].response.paid
              /\ cache[k].txHash # None
              /\ cache[k].response.txHash = cache[k].txHash
    /\ \A c \in Slots :
          (calls[c].pc = "done" /\ calls[c].res.kind = "content") =>
              calls[c].res.paid /\ calls[c].res.txHash # None

C3_Witness ==
    \E c \in Slots :
        /\ calls[c].pc = "done"
        /\ calls[c].commit = "success"
        /\ Len(calls[c].res.sources) > 0
        /\ calls[c].res.paid
        /\ cache[calls[c].key].status = "success"

\* C4 (scenario E): when an auto-pay purchase has claimed a key that had no
\* entry and the next thing that happens on the key, within the TTL, is
\* another purchase call, that call is told to wait and settles nothing; when
\* a success commit is followed on the key, within the TTL, by a purchase
\* call, that call gets the committed payload and settles nothing.
C4_ScenarioE ==
    [][ \A c \in Slots :
          LET k == calls'[c].key
              prev == last[k]
          IN  (Arrives(c, "purchase") /\ k # <<>> /\ now - prev.t < TTL) =>
                /\ (prev.kind = "claim" /\ prev.found = "absent" /\ prev.mode = "auto") =>
                      /\ calls'[c].pc = "done"
                      /\ calls'[c].res.kind = "wait"
                      /\ calls'[c].settles = 0
                      /\ settled' = settled
                      /\ cache' = cache
                /\ (prev.kind = "success") =>
                      /\ calls'[c].pc = "done"
                      /\ calls'[c].res = cache[k].response
                      /\ calls'[c].res.kind = "content"
                      /\ calls'[c].res.txHash = prev.txHash
                      /\ calls'[c].settles = 0
                      /\ settled' = settled
                      /\ cache' = cache
      ]_vars

C4_Witness ==
    \E c, d \in Slots :
        /\ calls[c].pc \notin {"idle", "done"}
        /\ calls[c].kind = "purchase" /\ calls[c].autoPay /\ calls[c].settles = 1
        /\ calls[d].pc = "done" /\ calls[d].res.kind = "wait"
        /\ calls[d].key = calls[c].key
        /\ Len(settled[calls[c].key]) = 1

\* C5: a purchase call that finds an unexpired pending or success entry
\* changes nothing (cache, assets, settlements, the other invocations) and
\* returns at once: the please-wait response for pending, the committed
\* response object itself for success.
C5_HitAndPendingAreFrames ==
    [][ \A c \in Slots :
          LET k == calls'[c].key
              cached == cache[k]
          IN  (/\ Arrives(c, "purchase")
               /\ IsFresh(cached, now)
               /\ cached.status \in {"pending", "success"}) =>
                /\ cache' = cache
                /\ creates' = creates
                /\ settled' = settled
                /\ \A d \in Slots \ {c} : calls'[d] = calls[d]
                /\ calls'[c].pc = "done"
                /\ calls'[c].settles = 0 /\ calls'[c].fetches = 0
                /\ calls'[c].commit = None
                /\ cached.status = "pending" =>
                      calls'[c].res = Resp("wait", FALSE, None, <<>>, None, None)
                /\ cached.status = "success" => calls'[c].res = cached.response
      ]_vars

C5_Witness ==
    \E c \in Slots :
        /\ calls[c].pc = "done"
        /\ calls[c].branch = "hit"
        /\ calls[c].res = cache[calls[c].key].response
        /\ Len(calls[c].res.sources) > 0
        /\ started >= 2

\* C6 (scenario A): a purchase call with a non-empty query, no transaction
\* id and no auto-pay that finds no reusable entry returns the payment
\* instructions, settles nothing and does not leave the key pending.
C6_ScenarioA ==
    \A c \in Slots :
        (/\ calls[c].pc = "done"
         /\ calls[c].kind = "purchase"
         /\ calls[c].key # <<>>
         /\ calls[c].branch = "miss"
         /\ calls[c].argTx = None
         /\ ~calls[c].autoPay) =>
            /\ calls[c].res.kind = "instructions"
            /\ calls[c].settles = 0
            /\ cache[calls[c].key].status # "pending"

\* C7 (scenario B): an auto-pay call whose wallet balance is below the amount
\* plus the transfer fee ends with the insufficient-funds error, has
\* committed the key failed and has submitted no transaction.
C7_ScenarioB ==
    \A c \in Slots :
        LET call == calls[c]
        IN  (/\ call.kind = "purchase"
             /\ call.autoPay
             /\ call.settles = 1
             /\ call.pre.seen
             /\ call.pre.balance < ParseEther(requiredAmount) + call.pre.gasPrice * 21000) =>
                /\ call.pc = "done"
                /\ call.res.kind = "payfail"
                /\ call.res.err = "insufficient"
                /\ call.res.isError
                /\ call.submitted = 0
                /\ call.commit = "failed"
                /\ cache[call.key].status = "failed"

C7_Witness ==
    \E c \in Slots :
        /\ calls[c].pc = "done"
        /\ calls[c].autoPay
        /\ calls[c].pre.seen
        /\ calls[c].pre.balance = 40999
        /\ calls[c].res.err = "insufficient"
        /\ cache[calls[c].key].status = "failed"

\* C8: a purchase call that was given a transaction id never invokes
\* sendPayment, whether or not auto-pay is set, the content fetch included.
C8_ExplicitTxNeverSettles ==
    \A c \in Slots : calls[c].argTx # None => calls[c].settles = 0

\* C9 (scenario D): when the verification of the payment answers
\* verified = false, the call commits the key failed, returns the
\* verification-failed error and sends no request to the content source.
C9_ScenarioD ==
    \A c \in Slots :
        LET call == calls[c]
        IN  (call.kind = "purchase" /\ call.checked /\ ~call.paid) =>
                /\ call.pc = "done"
                /\ call.res.kind = "verifyfail"
                /\ call.res.isError
                /\ call.commit = "failed"
                /\ cache[call.key].status = "failed"
                /\ call.fetches = 0

C9_Witness ==
    \E c \in Slots :
        /\ calls[c].pc = "done"
        /\ calls[c].checked /\ ~calls[c].paid
        /\ calls[c].argTx = "Tlow"
        /\ calls[c].res.kind = "verifyfail"

\* C10: a publish call that directly follows, on its key, a publish call
\* that returned a reference returns the same reference and creates no
\* asset: two publish calls in sequence after one purchase create one asset.
C10_PublishIdempotent ==
    [][ \A c \in Slots :
          LET k == calls'[c].key
              prev == last[k]
          IN  (Arrives(c, "publish") /\ k # <<>>
               /\ prev.kind \in {"pub_ok", "pub_already"}) =>
                /\ calls'[c].pc = "done"
                /\ calls'[c].res.kind = "pub_already"
                /\ ~calls'[c].res.isError
                /\ calls'[c].res.ual = prev.ual
                /\ creates' = creates
                /\ cache' = cache
      ]_vars

C10_Witness ==
    \E c \in Slots :
        /\ calls[c].pc = "done"
        /\ calls[c].res.kind = "pub_already"
        /\ calls[c].res.ual = Uals[1]
        /\ creates = 1
        /\ started = 3

\* C11: a publish call creates an asset only when the entry of its key has
\* status success and a non-empty payload; with an empty query, or an entry
\* that is absent, pending or failed, or a success entry without sources, it
\* returns an error at once, creates nothing and leaves the cache unchanged.
C11_PublishPreconditions ==
    [][ \A c \in Slots :
          LET k == calls'[c].key
              cached == cache[k]
              ready == k # <<>> /\ cached.status = "success" /\ Len(cached.sources) > 0
          IN  Arrives(c, "publish") =>
                /\ creates' # creates => ready
                /\ ~ready =>
                      /\ calls'[c].pc = "done"
                      /\ calls'[c].res.isError
                      /\ calls'[c].res.ual = None
                      /\ creates' = creates
                      /\ cache' = cache
      ]_vars

C11_Witness ==
    \E c \in Slots :
        /\ calls[c].pc = "done"
        /\ calls[c].kind = "publish"
        /\ calls[c].res.kind = "pub_norecent"
        /\ calls[c].res.isError
        /\ cache[calls[c].key].status = "failed"
        /\ Len(cache[calls[c].key].sources) > 0

\* C12: a purchase call that finds a failed entry at least as old as the TTL
\* takes the Miss branch: it does not return the old failure, the old entry
\* is gone, and with a payment to make or to check it holds the key pending
\* from now and goes on.
C12_ExpiredFailedIsMiss ==
    [][ \A c \in Slots :
          LET k == calls'[c].key
              cached == cache[k]
              call == calls'[c]
          IN  (/\ Arrives(c, "purchase")
               /\ k # <<>>
               /\ cached.status = "failed"
               /\ now - cached.timestamp >= TTL) =>
                /\ call.branch = "miss"
                /\ cache'[k] \in {PendingEntry(now), NoEntry}
                /\ call.res.kind \notin {"wait", "content", "payfail", "verifyfail"}
                /\ (call.argTx # None \/ call.autoPay) =>
                      /\ call.pc \in {"pay", "verify"}
                      /\ cache'[k] = PendingEntry(now)
      ]_vars

C12_Witness ==
    \E c \in Slots, k \in Keys :
        /\ calls[c].pc \in {"pay", "verify"}
        /\ calls[c].key = k
        /\ last[k].kind = "claim"
        /\ last[k].found = "stale-failed"
        /\ cache[k] = PendingEntry(now)
        /\ now >= TTL

\* ------------------------------------------------ verifyPayment, on its own
\* The transaction hashes a caller may pass to verifyPayment: the users'
\* transactions, one the chain does not hold and one it holds without a
\* receipt yet.
ProbeHashes == DOMAIN UserTxs \cup {"Tnone", "Tpend"}

PendingTx == MkTx("0xab", 20000, "0xuser", "pending")

\* getTransaction / getTransactionReceipt for those hashes
ProbeLookup(h) == Lookup("Tpend", PendingTx, h)

\* The overrides a caller may pass: a recipient in either letter case, one
\* without the 0x prefix, an amount, a malformed amount.
ProbeOverrides ==
    [payTo : {None, "0xAB", "0xCD", "cd"}, amount : {None, "0.05", "bad"}]

\* verifyPayment(h, ovr) is called and returns out.  It writes no field but
\* the clients ensureWallet() sets up.  again tells that the call before it
\* had the same arguments; before is what that call returned.
VerifyProbe(h, ovr, rpc) ==
    LET out == verifyPayment(privateKey, ProbeLookup(h), h, ovr, rpc)
        again == /\ probe.op = "verifyPayment"
                 /\ probe.txHash = h
                 /\ probe.ovr = ovr
    IN  /\ probe' = [op |-> "verifyPayment", txHash |-> h, ovr |-> ovr, rpc |-> rpc,
                     out |-> out, again |-> again,
                     before |-> IF again THEN probe.out ELSE out,
                     rpcBefore |-> IF again THEN probe.rpc ELSE rpc]
        /\ UNCHANGED <<privateKey, now, cache, calls, creates, started, last, settled>>

NextVerify ==
    \E h \in ProbeHashes, ovr \in ProbeOverrides, rpc \in {"ok", "throw"} :
        VerifyProbe(h, ovr, rpc)

SpecVerify == Init /\ [][NextVerify]_vars

\* The requirement a call of verifyPayment is about: the overrides where
\* given, the configured recipient and amount otherwise.
RequiredRecipient(ovr) == IF ovr.payTo # None THEN ovr.payTo ELSE paymentAddress

RequiredAmount(ovr) == IF ovr.amount # None THEN ovr.amount ELSE requiredAmount

WellFormed(ovr) ==
    /\ ovr.payTo # None => Has0x(ovr.payTo)
    /\ ParseEther(RequiredAmount(ovr)) >= 0

\* the chain holds the transaction and its receipt, and answers the lookups
FoundOnChain(h, rpc) ==
    rpc = "ok" /\ ProbeLookup(h).found /\ ProbeLookup(h).status # "pending"

ThreePredicates(h, ovr) ==
    /\ AddrLower(ProbeLookup(h).to) = AddrLower(RequiredRecipient(ovr))
    /\ ProbeLookup(h).value >= ParseEther(RequiredAmount(ovr))
    /\ ProbeLookup(h).status = "success"

\* C13: for every found transaction and every requirement, verifyPayment
\* returns verified = true exactly when the recipient matches the required
\* one (letter case aside), the value is at least the required amount and
\* the receipt status is success.
C13_VerifiedIffThreePredicates ==
    (/\ probe.op = "verifyPayment"
     /\ FoundOnChain(probe.txHash, probe.rpc)
     /\ WellFormed(probe.ovr)) =>
        (probe.out.verified <=> ThreePredicates(probe.txHash, probe.ovr))

\* C14: verifyPayment always returns a result.  When the transaction or its
\* receipt cannot be found, or a lookup fails, the result is verified = false
\* without amount and sender; for a transaction that is found and does not
\* meet the requirement it is verified = false with amount and sender.
C14_NotFoundVersusInvalid ==
    probe.op = "verifyPayment" =>
        /\ ~FoundOnChain(probe.txHash, probe.rpc) =>
              ~probe.out.verified /\ ~probe.out.hasDetails
        /\ (/\ FoundOnChain(probe.txHash, probe.rpc)
            /\ WellFormed(probe.ovr)
            /\ ~ThreePredicates(probe.txHash, probe.ovr)) =>
              /\ ~probe.out.verified
              /\ probe.out.hasDetails
              /\ probe.out.amount = ProbeLookup(probe.txHash).value
              /\ probe.out.from = ProbeLookup(probe.txHash).from

\* C15: verifyPayment called on a confirmed transaction that matches the
\* requirement returns verified = true, and returns it again when called a
\* second time with the same arguments; the calls change neither the cache
\* nor any payment state.
C15_VerifyIdempotent ==
    (/\ probe.op = "verifyPayment"
     /\ FoundOnChain(probe.txHash, probe.rpc)
     /\ WellFormed(probe.ovr)
     /\ ThreePredicates(probe.txHash, probe.ovr)) =>
        /\ probe.out.verified
        /\ (probe.again /\ probe.rpcBefore = "ok") => probe.before = probe.out
        /\ cache = [k \in Keys |-> NoEntry]
        /\ \A k \in Keys : settled[k] = <<>>
        /\ creates = 0

\* -------------------------------------------------- sendPayment, on its own
\* What getBalance and getGasPrice may answer (micro-NEURO), or a lookup
\* that rejects.
ProbePreflights ==
    [kind : {"ok"}, balance : {20000, 40999, 41000, 61999, 62000, 92000},
     gasPrice : {0, 1, 2}]
    \cup [kind : {"throw"}, balance : {0}, gasPrice : {0}]

\* The overrides settle402 may pass on: the amounts matter to the balance test.
SendOverrides == [payTo : {None, "0xCD"}, amount : {None, "0.05", "bad"}]

\* What sendPayment returns: {txHash} or {error}.  The insufficient-funds
\* message is built from the balance and the total cost; sends counts the
\* sendTransaction calls made on the way.
PayResult(txHash, error, balance, total, sends) ==
    [txHash |-> txHash, error |-> error, balance |-> balance, total |-> total,
     sends |-> sends]

\* sendPayment(overrides), lines 125-174, given what the chain client answers:
\* pre to the preflight lookups, sub to sendTransaction ("hash" or "throw"),
\* rec to waitForTransactionReceipt ("success", "reverted" or "throw").
sendPayment(key, ovr, pre, sub, rec) ==
    LET value == ParseEther(ResolveAmount(ovr))
        totalCost == value + pre.gasPrice * gasLimit
    IN  IF EnsureWalletThrows(key) THEN PayResult(None, "config", 0, 0, 0)
        ELSE IF value < 0 THEN PayResult(None, "parse", 0, 0, 0)
        ELSE IF pre.kind = "throw" THEN PayResult(None, "rpc", 0, 0, 0)
        ELSE IF InsufficientFunds(pre.balance, value, pre.gasPrice)
        THEN PayResult(None, "insufficient", pre.balance, totalCost, 0)
        ELSE IF sub = "throw" THEN PayResult(None, "rpc", 0, 0, 1)
        ELSE IF rec = "throw" THEN PayResult(None, "rpc", 0, 0, 1)
        ELSE IF ~ReceiptSuccess(rec) THEN PayResult(None, "txfailed", 0, 0, 1)
        ELSE PayResult(SentIds[1], None, 0, 0, 1)

\* sendPayment(ovr) is called and returns out.
SendProbe(ovr, pre, sub, rec) ==
    /\ probe' = [op |-> "sendPayment", ovr |-> ovr, pre |-> pre, sub |-> sub,
                 rec |-> rec, out |-> sendPayment(privateKey, ovr, pre, sub, rec)]
    /\ UNCHANGED <<privateKey, now, cache, calls, creates, started, last, settled>>

NextSend ==
    \E ovr \in SendOverrides, pre \in ProbePreflights, sub \in {"hash", "throw"},
       rec \in {"success", "reverted", "throw"} :
        SendProbe(ovr, pre, sub, rec)

SpecSend == Init /\ [][NextSend]_vars

\* C16: once the preflight lookups have answered, sendPayment calls
\* sendTransaction exactly when balance >= amount + gasPrice * 21000; with a
\* balance strictly below that total it returns the insufficient-funds error
\* with both figures and calls sendTransaction zero times.
C16_SubmitIffFunded ==
    (/\ probe.op = "sendPayment"
     /\ privateKey # ""
     /\ probe.pre.kind = "ok"
     /\ ParseEther(RequiredAmount(probe.ovr)) >= 0) =>
        LET total == ParseEther(RequiredAmount(probe.ovr)) + probe.pre.gasPrice * 21000
        IN  /\ probe.out.sends \in {0, 1}
            /\ probe.out.sends = 1 <=> probe.pre.balance >= total
            /\ probe.pre.balance < total =>
                  /\ probe.out.error = "insufficient"
                  /\ probe.out.txHash = None
                  /\ probe.out.balance = probe.pre.balance
                  /\ probe.out.total = total
                  /\ probe.out.sends = 0

C16_Witness ==
    /\ probe.op = "sendPayment"
    /\ probe.pre.kind = "ok"
    /\ probe.pre.gasPrice = 2
    /\ probe.pre.balance = 61999
    /\ probe.ovr.amount = None
    /\ probe.out.error = "insufficient"
    /\ probe.out.total = 62000
    /\ probe.out.sends = 0

\* ------------------------------------------------ fetchWithX402, on its own
\* Faulty variant: the settlement is taken as verified whatever the answer.
SettlementUnchecked(verification) == TRUE

\* settle402, line 272: verified.verified
SettlementVerified(verification) == verification.verified

\* no verifyPayment call was made
NoVerification ==
    [verified |-> FALSE, txHash |-> None, hasDetails |-> FALSE, amount |-> 0,
     from |-> None]

\* settle402(requirement), lines 262-273, given the chain client's answers:
\* {txHash} or {error}, with what sendPayment and verifyPayment answered
\* inside it.  The transaction verified is the one sendPayment has just seen
\* confirmed.
settle402(key, requirement, pre, sub, rec, rpc) ==
    LET ovr == [payTo |-> normalizePayTo(requirement.payTo),
                amount |-> requirement.amount]
        payment == sendPayment(key, ovr, pre, sub, rec)
        tx == MkTx(ResolvePayTo(ovr), ParseEther(ResolveAmount(ovr)), walletAddress,
                   "success")
        verified == verifyPayment(key, tx, payment.txHash, ovr, rpc)
    IN  IF payment.txHash = None
        THEN [txHash |-> None, error |-> payment.error, payment |-> payment,
              verification |-> NoVerification]
        ELSE IF SettlementVerified(verified)
        THEN [txHash |-> payment.txHash, error |-> None, payment |-> payment,
              verification |-> verified]
        ELSE [txHash |-> None, error |-> "notverified", payment |-> payment,
              verification |-> verified]

\* What one fetchWithX402 call ends in: the response it returns, or threw;
\* requests counts its fetch calls, settlements its settle402 calls, and
\* proof is the x-402-payment-tx header of the second request.
FetchResult(threw, response, requests, settlements, proof) ==
    [threw |-> threw, response |-> response, requests |-> requests,
     settlements |-> settlements, proof |-> proof]

NoHttpResponse == [kind |-> None, results |-> <<>>, hdr |-> NoOverrides]

\* fetchWithX402(url, headers), lines 197-215: first and second are what the
\* content source answers to the two requests (kind "throw": fetch rejects)
fetchWithX402(key, first, pre, sub, rec, rpc, second) ==
    LET payment == settle402(key, first.hdr, pre, sub, rec, rpc)
    IN  IF first.kind = "throw" THEN FetchResult(TRUE, NoHttpResponse, 1, 0, None)
        ELSE IF ~PaymentRequired(first) THEN FetchResult(FALSE, first, 1, 0, None)
        ELSE IF payment.txHash = None THEN FetchResult(TRUE, NoHttpResponse, 1, 1, None)
        ELSE IF second.kind = "throw"
        THEN FetchResult(TRUE, NoHttpResponse, 2, 1, payment.txHash)
        ELSE FetchResult(FALSE, second, 2, 1, payment.txHash)

\* Faulty variant: a payment challenge passes for a response with a body.
ResponseOkOrChallenge(response) == response.kind \in {"ok", "402"}

\* line 236: response.ok
ResponseOk(response) == response.kind = "ok"

\* fetchSources, lines 234-295, around that call: what it returns, and
\* whether it returns it from an error path (the !response.ok return or the
\* catch block) or after reading the body
fetchSources(result) ==
    IF result.threw THEN [sources |-> <<>>, path |-> "catch"]
    ELSE IF ~ResponseOk(result.response) THEN [sources |-> <<>>, path |-> "notok"]
    ELSE [sources |-> SourcesOf(result.response), path |-> "body"]

\* fetchSources is called; fetchWithX402 ends in out and fetchSources in got.
\* The answers the call asked for are kept with it: the two responses, the
\* chain client's answers (chainSaid) and what settle402 made of them (paid).
FetchProbe(first, pre, sub, rec, rpc, second) ==
    LET out == fetchWithX402(privateKey, first, pre, sub, rec, rpc, second)
        asked == out.settlements = 1
    IN  /\ probe' = [op |-> "fetchWithX402", first |-> first,
                     second |-> IF out.requests = 2 THEN second ELSE NoHttpResponse,
                     chainSaid |-> IF asked THEN <<pre, sub, rec, rpc>> ELSE <<>>,
                     paid |-> IF asked
                              THEN settle402(privateKey, first.hdr, pre, sub, rec, rpc)
                              ELSE [txHash |-> None, error |-> None,
                                    payment |-> PayResult(None, None, 0, 0, 0),
                                    verification |-> NoVerification],
                     out |-> out, got |-> fetchSources(out)]
        /\ UNCHANGED <<privateKey, now, cache, calls, creates, started, last, settled>>

\* What the first request may be answered with: as before, and payment
\* challenges with other x-402-payto and x-402-amount headers.
FirstResponses ==
    FetchOutcomes \cup [kind : {"402"}, results : {<<>>}, hdr : SendOverrides]

NextFetch ==
    \E first \in FirstResponses, pre \in Preflights, sub \in {"hash", "throw"},
       rec \in {"success", "reverted", "throw"}, rpc \in {"ok", "throw"},
       second \in FetchOutcomes :
        FetchProbe(first, pre, sub, rec, rpc, second)

SpecFetch == Init /\ [][NextFetch]_vars

\* C17: when the first response is not a 402, fetchWithX402 returns that
\* response itself, after one request and without calling settle402.
C17_NonChallengePassesThrough ==
    (/\ probe.op = "fetchWithX402"
     /\ probe.first.kind \notin {"402", "throw"}) =>
        /\ ~probe.out.threw
        /\ probe.out.response = probe.first
        /\ probe.out.requests = 1
        /\ probe.out.settlements = 0
        /\ probe.out.proof = None
        /\ probe.paid.payment.sends = 0

C17_Witness ==
    /\ probe.op = "fetchWithX402"
    /\ probe.first.kind = "http500"
    /\ probe.out.response = probe.first
    /\ probe.out.settlements = 0
    /\ probe.got.path = "notok"

\* C18: one fetchWithX402 call makes at most two requests and at most one
\* settlement.  It settles exactly when the first response is a 402, and
\* makes the second request exactly when that settlement sent a transaction
\* and verifyPayment answered verified = true for it; the second request
\* carries that transaction's hash as payment proof.
C18_AtMostOneRetry ==
    probe.op = "fetchWithX402" =>
        /\ probe.out.requests \in {1, 2}
        /\ probe.out.settlements \in {0, 1}
        /\ probe.paid.payment.sends <= 1
        /\ probe.out.settlements = 1 <=> probe.first.kind = "402"
        /\ probe.out.requests = 2 <=>
              /\ probe.first.kind = "402"
              /\ probe.paid.payment.txHash # None
              /\ probe.paid.verification.verified
        /\ probe.out.requests = 2 =>
              /\ probe.out.proof = probe.paid.payment.txHash
              /\ probe.out.proof = probe.paid.verification.txHash
        /\ probe.out.requests = 1 => probe.out.proof = None

C18_Witness ==
    /\ probe.op = "fetchWithX402"
    /\ probe.first.kind = "402"
    /\ probe.out.requests = 2
    /\ probe.out.settlements = 1
    /\ probe.out.proof = SentIds[1]
    /\ probe.second.kind = "ok"
    /\ Len(probe.got.sources) = 2

C20_NoExceptionEscapes ==
    \A c \in Slots :
        (calls[c].pc = "done" /\ calls[c].kind = "purchase") =>
            /\ calls[c].res.kind # "exception"
            /\ calls[c].res.kind # None

\* ------------------------------------------------- getPaymentRequest alone
\* The overrides a caller may pass to getPaymentRequest: a recipient in
\* either letter case, one without the 0x prefix, an amount, a malformed one.
ResolveOverrides ==
    [payTo : {None, "0xAB", "0xCD", "0xcd", "cd"},
     amount : {None, "0.02", "0.05", "bad"}]

\* getPaymentRequest(ovr) is called and returns req; with the same overrides
\* sendPayment would submit the transaction sent, and verifyPayment(h, ovr)
\* returns out.
ResolveProbe(ovr, h) ==
    /\ probe' = [op |-> "getPaymentRequest", ovr |-> ovr, txHash |-> h,
                 req |-> getPaymentRequest(privateKey, ovr),
                 sent |-> PaymentTx(ovr),
                 out |-> verifyPayment(privateKey, ProbeLookup(h), h, ovr, "ok")]
    /\ UNCHANGED <<privateKey, now, cache, calls, creates, started, last, settled>>

NextResolve ==
    \E ovr \in ResolveOverrides, h \in ProbeHashes : ResolveProbe(ovr, h)

SpecResolve == Init /\ [][NextResolve]_vars

\* C21: getPaymentRequest returns the configured recipient and amount, or
\* those of the overrides where they are given; the transaction sendPayment
\* submits and the comparison verifyPayment makes use that same recipient
\* and amount.
C21_OneResolution ==
    (probe.op = "getPaymentRequest" /\ WellFormed(probe.ovr)) =>
        LET tx == ProbeLookup(probe.txHash)
        IN  /\ ~probe.req.threw
            /\ AddrLower(probe.req.address) = AddrLower(RequiredRecipient(probe.ovr))
            /\ probe.req.amount = RequiredAmount(probe.ovr)
            /\ probe.sent.to = probe.req.address
            /\ probe.sent.value = ParseEther(probe.req.amount)
            /\ FoundOnChain(probe.txHash, "ok") =>
                  (probe.out.verified <=>
                      /\ AddrLower(tx.to) = AddrLower(probe.req.address)
                      /\ tx.value >= ParseEther(probe.req.amount)
                      /\ tx.status = "success")

\* C22: a pending entry does not expire: a purchase call that finds the key
\* pending, however old the entry is, is told to wait and leaves the cache as
\* it is (it neither deletes the entry nor claims the key again).
C22_PendingNeverExpires ==
    [][ \A c \in Slots :
          LET k == calls'[c].key
          IN  (Arrives(c, "purchase") /\ cache[k].status = "pending") =>
                /\ cache' = cache
                /\ calls'[c].pc = "done"
                /\ calls'[c].res.kind = "wait"
                /\ calls'[c].branch = "pending"
      ]_vars

\* C23: within one purchase call the steps keep their order: the content
\* source is asked only after a verification answered true, a success commit
\* is written only after the content source was asked and the fetch is over,
\* and an auto-pay call verifies only after its settlement returned the
\* transaction hash it verifies (so that settlement is over before the
\* verification, and the verification before the fetch).
C23_StepOrder ==
    \A c \in Slots :
        LET call == calls[c]
        IN  call.kind = "purchase" =>
            /\ (call.fetches > 0 \/ call.pc \in {"fetch1", "fetch2", "verify402"}) =>
                  call.checked /\ call.paid
            /\ call.commit = "success" =>
                  call.fetches > 0 /\ call.pc = "done"
            /\ (call.autoPay /\ (call.checked \/ call.pc = "verify")) =>
                  call.settles >= 1 /\ call.tx # None
            /\ (call.autoPay /\ call.pc = "verify") =>
                  call.tx = call.ptx /\ call.sent.status = "success"
            /\ (call.ctx = "auto" /\ call.pc \in {"pay", "submit", "receipt"}) =>
                  ~call.checked /\ call.fetches = 0

C23_Witness ==
    \E c \in Slots :
        /\ calls[c].kind = "purchase"
        /\ calls[c].pc = "done"
        /\ calls[c].autoPay
        /\ calls[c].settles = 1
        /\ calls[c].checked /\ calls[c].paid
        /\ calls[c].fetches = 1
        /\ calls[c].commit = "success"
        /\ Len(calls[c].res.sources) > 0

\* the step is one of invocation c alone: no other slot changes
StepOf(c) == \A d \in Slots \ {c} : calls'[d] = calls[d]

\* C24: a purchase call that took the Miss branch with a payment supplied
\* (a transaction hash or auto-pay) and ends in a failed step, be it a
\* settlement that returns an error, a verification that answers false or an
\* exception, leaves the key committed failed, not success and not pending.
C24_FailureCommitsFailed ==
    [][ \A c \in Slots :
          LET old == calls[c]
              new == calls'[c]
          IN  (/\ StepOf(c)
               /\ old.kind = "purchase"
               /\ old.branch = "miss"
               /\ (old.argTx # None \/ old.autoPay)
               /\ new.pc = "done"
               /\ \/ old.pc \in {"pay", "submit", "receipt", "verify", "verify402"}
                  \/ new.res.kind = "exception") =>
                /\ new.commit = "failed"
                /\ cache'[old.key].status = "failed"
      ]_vars

\* C25: while a key is pending its entry is written only by the purchase
\* call that claimed it: a step that replaces or deletes a pending entry is a
\* step of the one purchase call that is in flight on the key after taking
\* the Miss branch, not of a newly arriving purchase call and not of a
\* publish call.
C25_OnlyClaimantWrites ==
    [][ \A k \in Keys :
          (cache[k].status = "pending" /\ cache'[k] # cache[k]) =>
              \E c \in Purchases(k) :
                  /\ Purchases(k) = {c}
                  /\ calls[c].branch = "miss"
                  /\ StepOf(c)
                  /\ calls'[c].pc = "done"
                  /\ calls'[c].kind = "purchase"
                  /\ calls'[c].commit \in {"success", "failed", "released"}
      ]_vars

\* C26: a success entry younger than the TTL stays a success entry with the
\* same payload and transaction hash, whatever purchase or publish call
\* takes a step (a publish call that failed included).
C26_SuccessOnlyExpires ==
    [][ \A k \in Keys :
          (cache[k].status = "success" /\ now - cache[k].timestamp < TTL) =>
              /\ cache'[k].status = "success"
              /\ cache'[k].response = cache[k].response
              /\ cache'[k].sources = cache[k].sources
              /\ cache'[k].txHash = cache[k].txHash
      ]_vars

\* C27: a purchase call that is answered from the cache gets a payload that
\* the purchase handler committed less than the TTL ago, whatever publish
\* calls wrote the entry since.
C27_NoStaleReplay ==
    [][ \A c \in Slots :
          LET k == calls'[c].key
          IN  (Arrives(c, "purchase") /\ calls'[c].branch = "hit") =>
                /\ calls'[c].res = cache[k].response
                /\ now - cache[k].fetchedAt < TTL
      ]_vars

\* C28: a publish call that finds a success entry as old as the TTL or older
\* treats the key as absent: it returns the no-recent-purchase error, creates
\* no asset and leaves the cache as it is.
C28_PublishHonoursTtl ==
    [][ \A c \in Slots :
          LET k == calls'[c].key
          IN  (/\ Arrives(c, "publish")
               /\ cache[k].status = "success"
               /\ now - cache[k].timestamp >= TTL) =>
                /\ calls'[c].pc = "done"
                /\ calls'[c].res.kind = "pub_norecent"
                /\ creates' = creates
                /\ cache' = cache
      ]_vars

\* C29: a purchase call that finds a failed entry younger than the TTL does
\* not take the Miss branch: it writes no pending entry, starts no settlement
\* and no verification, and returns at once.
C29_FreshFailedIsNoMiss ==
    [][ \A c \in Slots :
          LET k == calls'[c].key
          IN  (/\ Arrives(c, "purchase")
               /\ cache[k].status = "failed"
               /\ now - cache[k].timestamp < TTL) =>
                /\ calls'[c].branch # "miss"
                /\ cache'[k] = cache[k]
                /\ settled' = settled
                /\ calls'[c].pc = "done"
                /\ calls'[c].settles = 0
      ]_vars

\* C30: every claim is resolved by the call that made it: a key is pending
\* only while a purchase call that took the Miss branch on it is still
\* running, so no key is left pending once that call has ended.
C30_NoOrphanPending ==
    \A k \in Keys :
        cache[k].status = "pending" =>
            \E c \in Purchases(k) : calls[c].branch = "miss"

\* C31: sendPayment does not retry and goes by the receipt: one call invokes
\* sendTransaction at most once, returns a transaction hash only when the
\* submission went through and the receipt status is success, and returns an
\* error and no hash when the submission throws, the wait for the receipt
\* throws or the receipt is not a success.
C31_NoRetryAndByReceipt ==
    probe.op = "sendPayment" =>
        /\ probe.out.sends \in {0, 1}
        /\ (probe.out.txHash = None) # (probe.out.error = None)
        /\ probe.out.txHash # None =>
              /\ probe.out.sends = 1
              /\ probe.sub = "hash"
              /\ probe.rec = "success"
        /\ (probe.out.sends = 1 /\ (probe.sub = "throw" \/ probe.rec # "success")) =>
              /\ probe.out.txHash = None
              /\ probe.out.error \in {"rpc", "txfailed"}

C31_Witness ==
    /\ probe.op = "sendPayment"
    /\ probe.sub = "hash"
    /\ probe.rec = "reverted"
    /\ probe.out.sends = 1
    /\ probe.out.txHash = None
    /\ probe.out.error = "txfailed"

\* C32: when the settlement that follows a 402 fails (sendPayment returns an
\* error, or its transaction is not verified), the content request is not
\* sent again and the purchase call reports the failure: it answers with an
\* error, not with a content response that has zero sources.
C32_SettlementFailureReported ==
    [][ \A c \in Slots :
          LET old == calls[c]
              new == calls'[c]
          IN  (/\ StepOf(c)
               /\ old.kind = "purchase"
               /\ old.ctx = "402"
               /\ old.pc \in {"pay", "submit", "receipt", "verify402"}
               /\ new.pc = "done") =>
                /\ new.fetches = old.fetches
                /\ new.res.isError
                /\ new.res.kind # "content"
      ]_vars

\* C33: resolving a requirement needs no signing key.  With no key
\* configured getPaymentRequest still returns the requirement, and
\* verifyPayment still decides a transaction the chain holds by recipient,
\* amount and receipt status.
C33_NoCredentialNeeded ==
    (/\ probe.op = "getPaymentRequest"
     /\ privateKey = ""
     /\ WellFormed(probe.ovr)) =>
        /\ ~probe.req.threw
        /\ probe.req.amount = RequiredAmount(probe.ovr)
        /\ FoundOnChain(probe.txHash, "ok") =>
              /\ probe.out.hasDetails
              /\ probe.out.verified <=> ThreePredicates(probe.txHash, probe.ovr)

\* C34: when the content request is rejected or answered with a status that
\* is not 2xx after the payment was verified, the purchase call does not
\* fail: it returns the content response without the error flag, with zero
\* sources and the transaction hash, and commits the key as success with an
\* empty payload.
C34_UpstreamFailureIsEmptySuccess ==
    [][ \A c \in Slots :
          LET old == calls[c]
              new == calls'[c]
          IN  (/\ StepOf(c)
               /\ old.kind = "purchase"
               /\ old.pc \in {"fetch1", "fetch2"}
               /\ new.pc = "done"
               /\ new.upstream \in {"http500", "throw"}) =>
                /\ old.checked /\ old.paid
                /\ new.commit = "success"
                /\ new.res = ContentResponse(old.tx, <<>>, TRUE)
                /\ ~new.res.isError
                /\ new.res.txHash # None
                /\ cache'[old.key] = SuccessEntry(now, new.res, <<>>, old.tx)
      ]_vars

C34_Witness ==
    \E c \in Slots :
        /\ calls[c].kind = "purchase"
        /\ calls[c].pc = "done"
        /\ calls[c].upstream = "http500"
        /\ calls[c].commit = "success"
        /\ calls[c].res.kind = "content"
        /\ calls[c].res.sources = <<>>
        /\ cache[calls[c].key].status = "success"
        /\ cache[calls[c].key].sources = <<>>
        /\ cache[calls[c].key].txHash = calls[c].res.txHash

\* ---------------------------------------------- the dedup loop, on its own
MaxResults == 3

\* Items the content source may list: two whose doi differs in letter case
\* only, one with a pmcid, one whose open-access url is that pmcid in lower
\* case, and one without any identifier.
DedupItems ==
    { Item(None, "P1", "10.1/X", None), Item(None, "P2", "10.1/x", None),
      Item("PMC1", None, None, None), Item(None, "P4", None, "pmc1"),
      Item(None, None, None, None) }

ResultLists ==
    UNION { [1..n -> DedupItems] : n \in 0..MaxResults }

\* fetchSources reads the result list results from the body and returns out
DedupProbe(results, limit) ==
    /\ probe' = [op |-> "fetchSources", results |-> results, limit |-> limit,
                 out |-> Dedup(results, limit)]
    /\ UNCHANGED <<privateKey, now, cache, calls, creates, started, last, settled>>

NextDedup ==
    \E results \in ResultLists, limit \in 1..MaxResults : DedupProbe(results, limit)

SpecDedup == Init /\ [][NextDedup]_vars

\* the key two items must not share: the doi, else the pmcid, else the url,
\* else the id, in lower case
SharedKey(item, i) ==
    StrLower(IF item.doi # None THEN item.doi
             ELSE IF item.pmcid # None THEN item.pmcid
             ELSE IF pickUrl(item).v # None THEN pickUrl(item).v
             ELSE ItemId(item, i))

\* C35: what fetchSources returns is a subsequence of the upstream list, in
\* upstream order, in which no two items have the same dedup key; every item
\* in it is the first upstream item with its key, and it has at most limit
\* items.
C35_DedupSubsequence ==
    probe.op = "fetchSources" =>
        LET results == probe.results
            out == probe.out
        IN  /\ Len(out) <= probe.limit
            /\ \E f \in [1..Len(out) -> 1..Len(results)] :
                  /\ \A n \in 1..Len(out) : out[n] = ToSource(results[f[n]], f[n])
                  /\ \A m, n \in 1..Len(out) : m < n => f[m] < f[n]
                  /\ \A m, n \in 1..Len(out) :
                        m # n => SharedKey(results[f[m]], f[m]) # SharedKey(results[f[n]], f[n])
                  /\ \A n \in 1..Len(out) : \A j \in 1..(f[n] - 1) :
                        SharedKey(results[j], j) # SharedKey(results[f[n]], f[n])

C35_Witness ==
    /\ probe.op = "fetchSources"
    /\ probe.limit = 2
    /\ probe.results = << Item(None, "P1", "10.1/X", None), Item(None, "P2", "10.1/x", None),
                          Item("PMC1", None, None, None) >>
    /\ Len(probe.out) = 2
    /\ probe.out[1].id = "P1"
    /\ probe.out[2].id = "PMC1"

\* ------------------------------------------- query normalisation, on its own
MaxQueryLen == 3

\* The query strings a caller may send: letters in both cases, spaces, double
\* quotes and the "sources:" prefix.
QueryStrings ==
    UNION { [1..n -> {"a", "A", " ", "q", "sources:"}] : n \in 0..MaxQueryLen }

\* The purchase handler and the publish handler are given the string raw and
\* compute their normalizedQuery from it.
KeyProbe(raw) ==
    /\ probe' = [op |-> "normalizedQuery", raw |-> raw,
                 purchase |-> PurchaseKey(raw), publish |-> PublishKey(raw)]
    /\ UNCHANGED <<privateKey, now, cache, calls, creates, started, last, settled>>

NextKeys == \E raw \in QueryStrings : KeyProbe(raw)

SpecKeys == Init /\ [][NextKeys]_vars

\* C36: the cache key does not depend on letter case or on surrounding
\* whitespace, and it is the same key in both handlers: the publish handler,
\* given the query string a purchase was made with, looks up the key that
\* purchase wrote.
C36_SameKeyInBothHandlers ==
    probe.op = "normalizedQuery" =>
        /\ PurchaseKey(ToLower(probe.raw)) = probe.purchase
        /\ PurchaseKey(<<" ">> \o probe.raw \o <<" ">>) = probe.purchase
        /\ probe.publish = probe.purchase

\* C37: however publish calls on one key interleave, at most one of them
\* invokes asset.create for the payload of one purchase: no two publish calls
\* that read the same purchase's entry are awaiting an asset creation at the
\* same time.
C37_OneCreatePerPurchase ==
    \A c, d \in Slots :
        (/\ c # d
         /\ calls[c].kind = "publish" /\ calls[c].pc = "creating"
         /\ calls[d].kind = "publish" /\ calls[d].pc = "creating"
         /\ calls[c].key = calls[d].key) =>
            \/ calls[c].snap.txHash # calls[d].snap.txHash
            \/ calls[c].snap.fetchedAt # calls[d].snap.fetchedAt

\* C38: a purchase call pays only when auto-pay is asked for: a call that
\* was given no transaction hash and invokes sendPayment was called with
\* autoPay true, not with autoPay absent, false or the string "false".
C38_NoPaymentUnlessAsked ==
    \A c \in Slots :
        (/\ c \in InFlight
         /\ calls[c].kind = "purchase"
         /\ calls[c].argTx = None
         /\ calls[c].settles > 0) =>
            calls[c].argAuto \notin {None, "false", "str:false"}

\* ------------------------------------------ purchases of two different keys
\* Purchase calls on two topics by callers who hold transaction hashes, with
\* everything a purchase call does after it has started.
NextTwoKeys ==
    \/ \E c \in Slots, raw \in TwoQueries, argTx \in ArgTxs \ {None} :
          PurchaseStart(c, raw, argTx, None)
    \/ \E c \in Slots : Verify(c)
    \/ \E c \in Slots : Fetch1(c)
    \/ \E c \in Slots : PayPreflight(c)
    \/ \E c \in Slots : PaySubmit(c)
    \/ \E c \in Slots : PayReceipt(c)
    \/ \E c \in Slots : Verify402(c)
    \/ \E c \in Slots : Fetch2(c)
    \/ \E c \in Slots : Return(c)

SpecTwoKeys == Init /\ [][NextTwoKeys]_vars

\* C39: a transaction pays for one query only: no two keys hold success
\* entries committed for the same transaction hash.
C39_NoReplayAcrossQueries ==
    \A k1, k2 \in Keys :
        (/\ k1 # k2
         /\ cache[k1].status = "success"
         /\ cache[k2].status = "success") =>
            cache[k1].txHash # cache[k2].txHash

====
